---- MODULE Spec2Model ----
(***************************************************************************)
(* Model of src/client.py: MCPClient.process_query, the round-trip         *)
(* protocol between the OpenRouter chat-completions endpoint and the MCP   *)
(* tool session, with its callers chat_loop and main.                      *)
(*                                                                         *)
(* Texts are sequences of tokens, so that formatting (f-strings, str(),    *)
(* "\n".join) is concatenation and "contains" is a contiguous-subsequence  *)
(* test.  A nullable value is a sequence of length at most one: << >> is   *)
(* Python's None (or an absent key), <<v>> is the value v.                 *)
(***************************************************************************)
EXTENDS Integers, Sequences, FiniteSets, TLC

VARIABLES
    main_pc,          \* position of main(): constructed, chat_loop, cleanup, exited
    session,          \* self.session: "none" or "live"
    pc,               \* position of the current process_query call
    query,            \* the query argument of the current call
    messages,         \* the local list `messages` (the history)
    available_tools,  \* the local list `available_tools`
    first_response,   \* what the initial http_client.post produced
    tool_calls,       \* assistant_message['tool_calls'], the list being iterated
    idx,              \* 1-based index of the tool call of the for loop
    final_text,       \* the local list `final_text`
    result,           \* the value returned by process_query, << >> before it returns
    calls,            \* outbound calls of the current process_query call that have ended
    pending,          \* outbound calls issued and not yet ended (awaited)
    exit_stack,       \* self.exit_stack: "open", or "closed" once aclose() has run
    http_client       \* self.http_client: "open", or "closed" once aclose() has run

vars == <<main_pc, session, pc, query, messages, available_tools,
          first_response, tool_calls, idx, final_text, result, calls,
          pending, exit_stack, http_client>>

----------------------------------------------------------------------------
(* Bounds *)

\* largest number of tool calls carried by one assistant message
MaxCalls == 2

----------------------------------------------------------------------------
(* Texts *)

\* t occurs in s as a contiguous run of tokens (Python's `t in s`)
Contains(s, t) ==
    \E i \in 0..(Len(s) - Len(t)) : SubSeq(s, i + 1, i + Len(t)) = t

\* filter(None, final_text): drops the falsy (empty) fragments
FilterNone(frags) == SelectSeq(frags, LAMBDA f : f # << >>)

RECURSIVE Join(_)
\* "\n".join(frags)
Join(frags) ==
    IF frags = << >> THEN << >>
    ELSE IF Len(frags) = 1 THEN frags[1]
    ELSE frags[1] \o <<"\n">> \o Join(Tail(frags))

\* repr() of a text inside a container: quotes around it, line breaks escaped
PyRepr(t) == <<"'">> \o [i \in 1..Len(t) |-> IF t[i] = "\n" THEN "\\n" ELSE t[i]] \o <<"'">>

\* str() of the value of the body's 'error' field (text, or a mapping with a message)
PyStr(e) == IF e.is_str THEN e.text
            ELSE <<"{'message': ">> \o PyRepr(e.text) \o <<"}">>

----------------------------------------------------------------------------
(* Message texts produced by process_query *)

NotConnectedText == <<"ERROR: Not connected to server">>

\* the error text without the raw body
ErrAPI_NoBody(body) == <<"Error from OpenRouter API">>

ErrAPI(body) == <<"Error from OpenRouter API", ": ">> \o body

\* the error text without the value of the error field
ErrOpenRouter_Generic(e) == <<"Error from OpenRouter">>

ErrOpenRouter(e) == <<"Error from OpenRouter", ": ">> \o PyStr(e)

InvalidResponseText == <<"Invalid response received from API">>

ErrExecuting(name, msg) == <<"Error executing tool", " ", name, ": ">> \o msg

ToolFragment(name, tool_result) == <<"[Tool ", name, " result: ">> \o tool_result \o <<"]">>

APIError(body) == <<"API error: ">> \o body

ErrFollowUp(msg) == <<"Error in follow-up request", ": ">> \o msg

ErrProcessing(msg) == <<"Error processing query", ": ">> \o msg

\* str(e) of the exceptions the interpreter itself raises
KeyErrorText(key) == <<"'", key, "'">>

NotIterableText == <<"'NoneType' object is not iterable">>

JSONDecodeErrorText == <<"Expecting value: line 1 column 1 (char 0)">>

ArgsDecodeErrorText == <<"Expecting ':' delimiter: line 1 column 5 (char 4)">>

----------------------------------------------------------------------------
(* Tool calls and their arguments *)

\* arguments given as a structured mapping {x: 1}; a mapping is a set of pairs
ArgsMapping == [is_str |-> FALSE, text |-> << >>, map |-> {<<"x", 1>>}]

\* arguments given as the text {"x":1}
ArgsText == [is_str |-> TRUE, text |-> <<"{", "\"x\"", ":", "1", "}">>, map |-> {}]

\* arguments given as a text that is not JSON
ArgsBadText == [is_str |-> TRUE, text |-> <<"{", "\"x\"">>, map |-> {}]

JsonKey(tok) == CASE tok = "\"x\"" -> <<"x">>
                  [] tok = "\"y\"" -> <<"y">>
                  [] OTHER -> << >>

JsonInt(tok) == CASE tok = "1" -> <<1>>
                  [] tok = "2" -> <<2>>
                  [] OTHER -> << >>

\* json.loads on an object text: [ok |-> decoded?, map |-> the mapping]
json_loads(t) ==
    IF t = <<"{", "}">> THEN [ok |-> TRUE, map |-> {}]
    ELSE IF /\ Len(t) = 5
            /\ t[1] = "{" /\ JsonKey(t[2]) # << >> /\ t[3] = ":"
            /\ JsonInt(t[4]) # << >> /\ t[5] = "}"
         THEN [ok |-> TRUE, map |-> {<<JsonKey(t[2])[1], JsonInt(t[4])[1]>>}]
         ELSE [ok |-> FALSE, map |-> {}]

\* the arguments handed over without decoding the text
ParseArgs_NoDecode(tool_args) == [ok |-> TRUE, map |-> tool_args.map]

\* json.loads(tool_args) if isinstance(tool_args, str) else tool_args
ParseArgs(tool_args) ==
    IF tool_args.is_str THEN json_loads(tool_args.text)
    ELSE [ok |-> TRUE, map |-> tool_args.map]

Fn(name, args) == <<[name |-> name, arguments |-> args]>>

\* the tool calls a response can carry; << >> stands for an absent key
ToolCallSet ==
    { [id |-> <<"call_1">>, function |-> Fn("a", ArgsMapping)],
      [id |-> <<"call_2">>, function |-> Fn("b", ArgsText)],
      [id |-> <<"call_3">>, function |-> Fn("b", ArgsBadText)],
      [id |-> << >>,        function |-> Fn("a", ArgsMapping)],
      [id |-> <<"call_1">>, function |-> << >>] }

Batches == UNION { [1..n -> ToolCallSet] : n \in 0..MaxCalls }

----------------------------------------------------------------------------
(* Tool Session: catalog and invocation outcomes *)

ToolA == [name |-> "a", description |-> "tool a", inputSchema |-> "schema a"]

ToolB == [name |-> "b", description |-> "tool b", inputSchema |-> "schema b"]

\* what session.list_tools() can do: raise, or return response.tools
ListToolsOutcomes ==
    { [raises |-> TRUE, exc |-> <<"session closed">>, tools |-> << >>],
      [raises |-> FALSE, exc |-> << >>, tools |-> <<ToolA>>],
      [raises |-> FALSE, exc |-> << >>, tools |-> <<ToolA, ToolB>>] }

\* one entry of available_tools
ToolEntry(tool) ==
    [type |-> "function",
     function |-> [name |-> tool.name,
                   description |-> tool.description,
                   parameters |-> tool.inputSchema]]

\* what session.call_tool() can do: raise, or return a result with .content
CallToolOutcomes ==
    { [raises |-> TRUE, exc |-> <<"tool failed">>, content |-> << >>],
      [raises |-> FALSE, exc |-> << >>, content |-> <<"42">>] }

----------------------------------------------------------------------------
(* Model Endpoint: responses of http_client.post *)

StatusOK == 200

NoError == [is_str |-> TRUE, text |-> << >>]

ErrorValues ==
    { [is_str |-> TRUE, text |-> <<"bad key">>],
      [is_str |-> FALSE, text |-> <<"rate", "\n", "limit">>] }

\* the post raised (timeout, connection error)
Raised(exc) ==
    [kind |-> "raise", exc |-> exc, status |-> 0, text |-> << >>, decodes |-> FALSE,
     has_error |-> FALSE, error |-> NoError, has_choices |-> FALSE, choices |-> << >>]

\* a response with a non-200 status and a raw body
Failed(status, body) ==
    [kind |-> "response", exc |-> << >>, status |-> status, text |-> body,
     decodes |-> FALSE, has_error |-> FALSE, error |-> NoError,
     has_choices |-> FALSE, choices |-> << >>]

\* a 200 response whose body is not JSON
Undecodable ==
    [kind |-> "response", exc |-> << >>, status |-> StatusOK, text |-> <<"<html>">>,
     decodes |-> FALSE, has_error |-> FALSE, error |-> NoError,
     has_choices |-> FALSE, choices |-> << >>]

\* a 200 response with a JSON object body
Body(has_error, error, has_choices, choices) ==
    [kind |-> "response", exc |-> << >>, status |-> StatusOK, text |-> << >>,
     decodes |-> TRUE, has_error |-> has_error, error |-> error,
     has_choices |-> has_choices, choices |-> choices]

\* the value of first_response before the initial post
NoResponse ==
    [kind |-> "none", exc |-> << >>, status |-> 0, text |-> << >>, decodes |-> FALSE,
     has_error |-> FALSE, error |-> NoError, has_choices |-> FALSE, choices |-> << >>]

\* choices[0]['message']: content is None (<< >>) or a text; tool_calls is absent
\* (has_tool_calls = FALSE), null (<< >>) or a list (<<batch>>)
Message(content, has_tool_calls, tc) ==
    [content |-> content, has_tool_calls |-> has_tool_calls, tool_calls |-> tc]

Contents == { << >>, << << >> >>, << <<"hi">> >> }

AssistantMessages ==
    { Message(c, FALSE, << >>) : c \in Contents }
    \cup { Message(c, TRUE, << >>) : c \in Contents }
    \cup { Message(c, TRUE, <<b>>) : c \in Contents, b \in Batches }

\* a message that requests one well-formed tool call
ToolMessage ==
    Message(<< <<"hi">> >>, TRUE,
            << <<[id |-> <<"call_1">>, function |-> Fn("a", ArgsMapping)]>> >>)

\* a 2xx response other than 200 whose body is a well-formed completion
Accepted202 ==
    [Body(FALSE, NoError, TRUE, <<Message(<< <<"hi">> >>, FALSE, << >>)>>)
        EXCEPT !.status = 202, !.text = <<"{\"choices\": [...]}">>]

InitialResponses ==
    { Raised(<<"connect timeout">>), Failed(500, <<"upstream down">>), Undecodable,
      Accepted202 }
    \cup { Body(TRUE, e, FALSE, << >>) : e \in ErrorValues }
    \cup { Body(TRUE, e, TRUE, <<ToolMessage>>) : e \in ErrorValues }
    \cup { Body(FALSE, NoError, FALSE, << >>), Body(FALSE, NoError, TRUE, << >>) }
    \cup { Body(FALSE, NoError, TRUE, <<m>>) : m \in AssistantMessages }

FollowUpResponses ==
    { Raised(<<"read timeout">>), Failed(500, <<"upstream down">>), Undecodable,
      Body(FALSE, NoError, TRUE, << >>),
      Body(FALSE, NoError, TRUE, <<Message(<< >>, FALSE, << >>)>>),
      Body(FALSE, NoError, TRUE, <<Message(<< <<"then">> >>, FALSE, << >>)>>),
      Body(FALSE, NoError, TRUE, <<ToolMessage>>) }

\* assistant_message.get('content') / next_message.get('content') is truthy
Truthy(content) == content # << >> /\ content[1] # << >>

----------------------------------------------------------------------------
(* History entries and the log of outbound calls *)

Queries == { <<"q1">>, <<"q2">> }

UserMessage(q) ==
    [role |-> "user", content |-> <<q>>, tool_calls |-> << >>, tool_call_id |-> << >>]

AssistantToolCallMessage(tool_call) ==
    [role |-> "assistant", content |-> << >>, tool_calls |-> <<tool_call>>,
     tool_call_id |-> << >>]

ToolResultMessage(tool_id, tool_result) ==
    [role |-> "tool", content |-> <<tool_result>>, tool_calls |-> << >>,
     tool_call_id |-> <<tool_id>>]

\* session.list_tools(); outcome is "pending", "ok" or "raise"; tools is the catalog
\* built from what it returned
ListToolsCall(outcome, tools) ==
    [kind |-> "list_tools", idx |-> 0, name |-> "", arguments |-> {},
     messages |-> << >>, tools |-> tools, outcome |-> outcome, requested |-> 0]

\* what a post came to: it raised, a non-200 status, a body that is not JSON, a body
Outcome(r) ==
    IF r.kind = "raise" THEN "raise"
    ELSE IF r.status # StatusOK THEN "status"
    ELSE IF ~r.decodes THEN "undecodable"
    ELSE "ok"

\* the number of tool calls the first choice of a response asks for
RequestedCalls(r) ==
    IF /\ r.kind = "response" /\ r.decodes /\ r.has_choices /\ r.choices # << >>
       /\ r.choices[1].has_tool_calls /\ r.choices[1].tool_calls # << >>
    THEN Len(r.choices[1].tool_calls[1])
    ELSE 0

\* a request that carries only the last two entries of the history
ModelRequest_LastTurnOnly(i, msgs, tools) ==
    [kind |-> "model", idx |-> i, name |-> "", arguments |-> {},
     messages |-> IF Len(msgs) <= 2 THEN msgs ELSE SubSeq(msgs, Len(msgs) - 1, Len(msgs)),
     tools |-> tools, outcome |-> "pending", requested |-> 0]

\* the json= argument of a post to /chat/completions, while the post is awaited;
\* i = 0 for the initial call, else the index of the tool call it follows
ModelRequest(i, msgs, tools) ==
    [kind |-> "model", idx |-> i, name |-> "", arguments |-> {},
     messages |-> msgs, tools |-> tools, outcome |-> "pending", requested |-> 0]

\* a post to /chat/completions that has ended with r
ModelCall(i, msgs, tools, r) ==
    [ModelRequest(i, msgs, tools) EXCEPT !.outcome = Outcome(r),
                                         !.requested = RequestedCalls(r)]

\* session.call_tool(name, arguments); outcome is "pending", "ok" or "raise"
CallToolCall(i, name, arguments, outcome) ==
    [kind |-> "call_tool", idx |-> i, name |-> name, arguments |-> arguments,
     messages |-> << >>, tools |-> << >>, outcome |-> outcome, requested |-> 0]

----------------------------------------------------------------------------
(* Exception handling of process_query *)

\* Catcher without the try of lines 158-162 around the invocation
Catcher_NoToolTry(line) ==
    IF line \in 185..198 THEN "followup"
    ELSE IF line \in 105..204 THEN "outer"
    ELSE "none"

\* Catcher without the try of lines 184-198 around the follow-up
Catcher_NoFollowUpTry(line) ==
    IF line \in 159..162 THEN "tool"
    ELSE IF line \in 105..204 THEN "outer"
    ELSE "none"

\* Catcher with the outer try opened after the catalog is fetched
Catcher_OuterStartsLate(line) ==
    IF line \in 159..162 THEN "tool"
    ELSE IF line \in 185..198 THEN "followup"
    ELSE IF line \in 116..204 THEN "outer"
    ELSE "none"

\* the handler that catches an exception raised at a source line:
\* try 158-162 / except 163, try 184-198 / except 199, try 104-204 / except 206
Catcher(line) ==
    IF line \in 159..162 THEN "tool"
    ELSE IF line \in 185..198 THEN "followup"
    ELSE IF line \in 105..204 THEN "outer"
    ELSE "none"

\* the guard of line 94 left out
NotConnected_Skipped(s) == FALSE

\* `if not self.session`
NotConnected(s) == s = "none"

\* the assignments of one step to the locals of the call
Goto(p, msgs, ft, i, res, cs) ==
    /\ pc' = p
    /\ messages' = msgs
    /\ final_text' = ft
    /\ idx' = i
    /\ result' = res
    /\ calls' = cs

\* an await: the outbound call is issued and the coroutine is suspended at p
Await(call, p) ==
    /\ pending' = Append(pending, call)
    /\ Goto(p, messages, final_text, idx, << >>, calls)

\* a return statement of process_query
Return(text, ft, cs) == Goto("returned", messages, ft, idx, <<text>>, cs)

\* the value of line 204
JoinedText(ft) == Join(FilterNone(ft))

\* the exception leaves process_query
Propagate(ft, cs) == Goto("raised", messages, ft, idx, << >>, cs)

\* except block of lines 206-210
OuterExcept(msg, ft, cs) == Return(ErrProcessing(msg), ft, cs)

\* the id of the first tool call of the batch written into every tool message
ToolId_First(batch, i) == batch[1].id[1]

\* the id written into the tool message (line 155, used at line 178)
ToolId(batch, i) == batch[i].id[1]

\* the history rebuilt for each tool call: the user message and the current pair
AfterTool_Isolated(tool_result, ft, cs) ==
    LET tool_call == tool_calls[idx]
        tool_name == tool_call.function[1].name
    IN  Goto("followup",
             <<messages[1], AssistantToolCallMessage(tool_call),
               ToolResultMessage(ToolId(tool_calls, idx), tool_result)>>,
             Append(ft, ToolFragment(tool_name, tool_result)),
             idx, << >>, cs)

\* lines 168-181: the fragment and the two history entries of the current tool call
AfterTool(tool_result, ft, cs) ==
    LET tool_call == tool_calls[idx]
        tool_name == tool_call.function[1].name
    IN  Goto("followup",
             messages \o <<AssistantToolCallMessage(tool_call),
                           ToolResultMessage(ToolId(tool_calls, idx), tool_result)>>,
             Append(ft, ToolFragment(tool_name, tool_result)),
             idx, << >>, cs)

\* except block of lines 163-166
ToolExcept(msg, ft, cs) ==
    AfterTool(ErrExecuting(tool_calls[idx].function[1].name, msg), ft, cs)

\* the loop left after the first follow-up
AfterFollowUp_StopsAfterFirst(ft, cs) == Return(JoinedText(ft), ft, cs)

\* the follow-up of the current tool call issued again after it ended
AfterFollowUp_Retry(ft, cs) == Goto("followup", messages, ft, idx, << >>, cs)

\* end of one iteration of the for loop of line 152, and line 204 after the last
AfterFollowUp(ft, cs) ==
    IF idx < Len(tool_calls)
    THEN Goto("tool_call", messages, ft, idx + 1, << >>, cs)
    ELSE Return(JoinedText(ft), ft, cs)

\* except block of lines 199-202
FollowUpExcept(msg, ft, cs) == AfterFollowUp(Append(ft, ErrFollowUp(msg)), cs)

\* an exception with text msg is raised at a source line
Raise(line, msg, ft, cs) ==
    CASE Catcher(line) = "tool" -> ToolExcept(msg, ft, cs)
      [] Catcher(line) = "followup" -> FollowUpExcept(msg, ft, cs)
      [] Catcher(line) = "outer" -> OuterExcept(msg, ft, cs)
      [] OTHER -> Propagate(ft, cs)

----------------------------------------------------------------------------
(* Initial state: main() has constructed the client (lines 18-36, 250) *)

Init ==
    /\ main_pc = "constructed"
    /\ session = "none"
    /\ pc = "idle"
    /\ query = << >>
    /\ messages = << >>
    /\ available_tools = << >>
    /\ first_response = NoResponse
    /\ tool_calls = << >>
    /\ idx = 0
    /\ final_text = << >>
    /\ result = << >>
    /\ calls = << >>
    /\ pending = << >>
    /\ exit_stack = "open"
    /\ http_client = "open"

----------------------------------------------------------------------------
(* main, connect_to_server, chat_loop, cleanup *)

\* connect_to_server succeeds (lines 44-85) and main enters chat_loop
ConnectOK ==
    /\ main_pc = "constructed" /\ pc = "idle"
    /\ session' = "live"
    /\ main_pc' = "chat_loop"
    /\ UNCHANGED <<pc, query, messages, available_tools, first_response,
                   tool_calls, idx, final_text, result, calls, pending,
                   exit_stack, http_client>>

\* connect_to_server raises, before or after self.session is assigned at line 69;
\* main goes to its finally block
ConnectFail ==
    /\ main_pc = "constructed" /\ pc = "idle"
    /\ session' \in {"none", "live"}
    /\ main_pc' = "cleanup"
    /\ UNCHANGED <<pc, query, messages, available_tools, first_response,
                   tool_calls, idx, final_text, result, calls, pending,
                   exit_stack, http_client>>

\* chat_loop reads quit / exit / q (lines 221-222)
Quit ==
    /\ main_pc = "chat_loop" /\ pc = "idle"
    /\ main_pc' = "cleanup"
    /\ UNCHANGED <<session, pc, query, messages, available_tools, first_response,
                   tool_calls, idx, final_text, result, calls, pending,
                   exit_stack, http_client>>

\* what an aclose() can do
CloseOutcomes == {"ok", "raise"}

\* the state of self.http_client after cleanup: http_client.aclose() (line 236) runs
\* only when exit_stack.aclose() (line 235) returned
HttpAfterCleanup(first, second) ==
    IF first = "raise" THEN http_client
    ELSE IF second = "ok" THEN "closed" ELSE "failed"

\* cleanup (lines 231-239), called from the finally of main (line 256)
Cleanup ==
    /\ main_pc = "cleanup"
    /\ \E first \in CloseOutcomes, second \in CloseOutcomes :
        /\ exit_stack' = IF first = "ok" THEN "closed" ELSE "failed"
        /\ http_client' = HttpAfterCleanup(first, second)
    /\ main_pc' = "exited"
    /\ UNCHANGED <<session, pc, query, messages, available_tools, first_response,
                   tool_calls, idx, final_text, result, calls, pending>>

\* an error that `except Exception` (lines 206, 227) does not catch, such as
\* KeyboardInterrupt, leaves chat_loop: the call in progress is torn down and main
\* goes to its finally block
Interrupt ==
    /\ main_pc = "chat_loop"
    /\ main_pc' = "cleanup"
    /\ query' = << >>
    /\ available_tools' = << >>
    /\ first_response' = NoResponse
    /\ tool_calls' = << >>
    /\ pending' = << >>
    /\ Goto("idle", << >>, << >>, 0, << >>, << >>)
    /\ UNCHANGED <<session, exit_stack, http_client>>

----------------------------------------------------------------------------
(* process_query *)

\* process_query(query) is called: by chat_loop (line 224), or directly on a client
\* that was constructed and not connected.  Lines 94-102.
Begin ==
    /\ pc = "idle"
    /\ main_pc \in {"constructed", "chat_loop"}
    /\ \E q \in Queries :
        /\ query' = q
        /\ IF NotConnected(session)
           THEN Goto("returned", << >>, << >>, 0, <<NotConnectedText>>, << >>)
           ELSE Goto("list_tools", <<UserMessage(q)>>, << >>, 0, << >>, << >>)
    /\ UNCHANGED <<main_pc, session, available_tools, first_response, tool_calls,
                   pending, exit_stack, http_client>>

\* line 105: session.list_tools() is awaited
ListTools ==
    /\ pc = "list_tools"
    /\ Await(ListToolsCall("pending", << >>), "await_list_tools")
    /\ UNCHANGED <<main_pc, session, query, available_tools, first_response,
                   tool_calls, exit_stack, http_client>>

\* lines 105-113: list_tools ends; available_tools is built from response.tools
ListToolsReturn ==
    /\ pc = "await_list_tools"
    /\ pending' = << >>
    /\ \E out \in ListToolsOutcomes :
        IF out.raises
        THEN /\ Raise(105, out.exc, final_text,
                      Append(calls, ListToolsCall("raise", << >>)))
             /\ UNCHANGED available_tools
        ELSE LET tools == [i \in 1..Len(out.tools) |-> ToolEntry(out.tools[i])] IN
             /\ available_tools' = tools
             /\ Goto("initial_call", messages, final_text, idx, << >>,
                     Append(calls, ListToolsCall("ok", tools)))
    /\ UNCHANGED <<main_pc, session, query, first_response, tool_calls,
                   exit_stack, http_client>>

\* only client errors (4xx) treated as failures
StatusFails_OnlyClientErrors(r) == r.status # StatusOK /\ r.status < 500

\* `if response.status_code != 200` (lines 127, 191)
StatusFails(r) == r.status # StatusOK

\* the list the for loop of line 152 iterates, << >> when the loop is not reached
BatchOf(r) ==
    IF /\ r.kind = "response" /\ r.status = StatusOK /\ r.decodes
       /\ ~r.has_error /\ r.has_choices /\ r.choices # << >>
       /\ r.choices[1].has_tool_calls /\ r.choices[1].tool_calls # << >>
    THEN r.choices[1].tool_calls[1]
    ELSE << >>

\* lines 119-124: the initial post is awaited
InitialCall ==
    /\ pc = "initial_call"
    /\ Await(ModelRequest(0, messages, available_tools), "await_initial")
    /\ UNCHANGED <<main_pc, session, query, available_tools, first_response,
                   tool_calls, exit_stack, http_client>>

\* lines 119-152: the initial post ends; validation of the response, the first fragment
InitialResponse ==
    /\ pc = "await_initial"
    /\ pending' = << >>
    /\ \E r \in InitialResponses :
        LET req == pending[1]
            cs == Append(calls, ModelCall(req.idx, req.messages, req.tools, r)) IN
        /\ first_response' = r
        /\ tool_calls' = BatchOf(r)
        /\ IF r.kind = "raise" THEN Raise(119, r.exc, final_text, cs)
           ELSE IF StatusFails(r) THEN Return(ErrAPI(r.text), final_text, cs)
           ELSE IF ~r.decodes THEN Raise(132, JSONDecodeErrorText, final_text, cs)
           ELSE IF r.has_error THEN Return(ErrOpenRouter(r.error), final_text, cs)
           ELSE IF ~r.has_choices \/ r.choices = << >>
                THEN Return(InvalidResponseText, final_text, cs)
           ELSE LET assistant_message == r.choices[1]
                    ft == IF Truthy(assistant_message.content)
                          THEN <<assistant_message.content[1]>>
                          ELSE << >>
                IN  IF ~assistant_message.has_tool_calls
                    THEN Return(JoinedText(ft), ft, cs)
                    ELSE IF assistant_message.tool_calls = << >>
                         THEN Raise(152, NotIterableText, ft, cs)
                    ELSE IF assistant_message.tool_calls[1] = << >>
                         THEN Return(JoinedText(ft), ft, cs)
                    ELSE Goto("tool_call", messages, ft, 1, << >>, cs)
    /\ UNCHANGED <<main_pc, session, query, available_tools, exit_stack, http_client>>

\* lines 153-160: read the tool call, decode its arguments, await session.call_tool
ToolCall ==
    /\ pc = "tool_call"
    /\ LET tool_call == tool_calls[idx] IN
       IF tool_call.function = << >>
       THEN /\ Raise(153, KeyErrorText("function"), final_text, calls)
            /\ UNCHANGED pending
       ELSE IF tool_call.id = << >>
       THEN /\ Raise(155, KeyErrorText("id"), final_text, calls)
            /\ UNCHANGED pending
       ELSE LET tool_name == tool_call.function[1].name
                parsed_args == ParseArgs(tool_call.function[1].arguments)
            IN  IF ~parsed_args.ok
                THEN /\ Raise(159, ArgsDecodeErrorText, final_text, calls)
                     /\ UNCHANGED pending
                ELSE Await(CallToolCall(idx, tool_name, parsed_args.map, "pending"),
                           "await_call_tool")
    /\ UNCHANGED <<main_pc, session, query, available_tools, first_response,
                   tool_calls, exit_stack, http_client>>

\* lines 160-181: call_tool ends; its outcome is recorded
ToolReturn ==
    /\ pc = "await_call_tool"
    /\ pending' = << >>
    /\ \E out \in CallToolOutcomes :
        LET req == pending[1]
            cs == Append(calls, CallToolCall(req.idx, req.name, req.arguments,
                                             IF out.raises THEN "raise" ELSE "ok")) IN
        IF out.raises
        THEN Raise(160, out.exc, final_text, cs)
        ELSE AfterTool(out.content, final_text, cs)
    /\ UNCHANGED <<main_pc, session, query, available_tools, first_response,
                   tool_calls, exit_stack, http_client>>

\* the follow-up post sent without the catalog
FollowUpTools_Dropped(tools) == << >>

\* the catalog sent with a follow-up post (line 188)
FollowUpTools(tools) == tools

\* the follow-up post started as a task and not awaited
IssueFollowUp_NotAwaited(call) ==
    /\ pending' = Append(pending, call)
    /\ AfterFollowUp(final_text, calls)

\* the follow-up post is awaited (line 185)
IssueFollowUp(call) == Await(call, "await_followup")

\* lines 185-189: the follow-up post of the current tool call is awaited
FollowUp ==
    /\ pc = "followup"
    /\ IssueFollowUp(ModelRequest(idx, messages, FollowUpTools(available_tools)))
    /\ UNCHANGED <<main_pc, session, query, available_tools, first_response,
                   tool_calls, exit_stack, http_client>>

\* lines 185-202: the follow-up post ends
FollowUpResponse ==
    /\ pc = "await_followup"
    /\ pending' = << >>
    /\ \E r \in FollowUpResponses :
        LET req == pending[1]
            cs == Append(calls, ModelCall(req.idx, req.messages, req.tools, r)) IN
        IF r.kind = "raise" THEN Raise(185, r.exc, final_text, cs)
        ELSE IF StatusFails(r) THEN Raise(192, APIError(r.text), final_text, cs)
        ELSE IF ~r.decodes THEN Raise(194, JSONDecodeErrorText, final_text, cs)
        ELSE IF r.has_choices /\ r.choices # << >> /\ Truthy(r.choices[1].content)
             THEN AfterFollowUp(Append(final_text, r.choices[1].content[1]), cs)
             ELSE AfterFollowUp(final_text, cs)
    /\ UNCHANGED <<main_pc, session, query, available_tools, first_response,
                   tool_calls, exit_stack, http_client>>

\* the caller takes the result (chat_loop prints it, line 225; an exception that
\* left process_query is caught at line 227) and the locals of the call are dropped
Finish ==
    /\ pc \in {"returned", "raised"}
    /\ query' = << >>
    /\ available_tools' = << >>
    /\ first_response' = NoResponse
    /\ tool_calls' = << >>
    /\ pending' = << >>
    /\ Goto("idle", << >>, << >>, 0, << >>, << >>)
    /\ UNCHANGED <<main_pc, session, exit_stack, http_client>>

Next ==
    \/ ConnectOK
    \/ ConnectFail
    \/ Quit
    \/ Interrupt
    \/ Cleanup
    \/ Begin
    \/ ListTools
    \/ ListToolsReturn
    \/ InitialCall
    \/ InitialResponse
    \/ ToolCall
    \/ ToolReturn
    \/ FollowUp
    \/ FollowUpResponse
    \/ Finish

Spec == Init /\ [][Next]_vars

\* a step of the process_query coroutine: it issues its next outbound call, or the
\* call it awaits returns or fails
Step ==
    \/ ListTools \/ ListToolsReturn
    \/ InitialCall \/ InitialResponse
    \/ ToolCall \/ ToolReturn
    \/ FollowUp \/ FollowUpResponse

\* the event loop keeps running the coroutine (asyncio.run, line 259), and every
\* outbound call it awaits returns or fails
FairSpec == Spec /\ WF_vars(Step)

----------------------------------------------------------------------------
(* Vocabulary of the properties *)

\* the call_tool invocations of the current call, in the order issued
Invocations == SelectSeq(calls, LAMBDA c : c.kind = "call_tool")

\* the follow-up posts of the current call, in the order issued
FollowUps == SelectSeq(calls, LAMBDA c : c.kind = "model" /\ c.idx > 0)

\* every post of the current call
ModelCalls == SelectSeq(calls, LAMBDA c : c.kind = "model")

\* the initial response passed the validation of lines 127-142
Accepted ==
    /\ first_response.kind = "response" /\ first_response.status = StatusOK
    /\ first_response.decodes /\ ~first_response.has_error
    /\ first_response.has_choices /\ first_response.choices # << >>

\* the tool call carries the keys lines 153-155 read
WellFormed(tc) == tc.function # << >> /\ tc.id # << >>

\* the tool call is well formed and its arguments are a mapping or a decodable text
Invocable(tc) == WellFormed(tc) /\ ParseArgs(tc.function[1].arguments).ok

NumCalls == Len(tool_calls)

\* the tool calls whose ToolCall step has been taken
Reached == IF pc \in {"tool_call", "await_call_tool"} THEN idx - 1 ELSE idx

\* the i-th follow-up (resp. invocation) answers the i-th element of ks
Increasing(ks) ==
    \A i \in 1..(Len(ks) - 1) : ks[i] < ks[i + 1]

\* positions of the token tok in the text t
Positions(t, tok) == { i \in 1..Len(t) : t[i] = tok }

\* the k-th smallest element of a finite set of integers
RECURSIVE Nth(_, _)
Nth(S, k) ==
    LET m == CHOOSE x \in S : \A y \in S : x <= y
    IN  IF k = 1 THEN m ELSE Nth(S \ {m}, k - 1)

\* the k-th '[Tool <name> result: ...]' fragment of the text t, up to its closing ']'
Fragment(t, k) ==
    LET p == Nth(Positions(t, "[Tool "), k)
        q == CHOOSE j \in p..Len(t) : t[j] = "]" /\ \A l \in p..(j - 1) : t[l] # "]"
    IN  SubSeq(t, p, q)

\* the text that follows the k-th tool fragment of t, up to the next tool fragment
AfterFragment(t, k) ==
    LET ps == Positions(t, "[Tool ")
        p == Nth(ps, k)
        q == CHOOSE j \in p..Len(t) : t[j] = "]" /\ \A l \in p..(j - 1) : t[l] # "]"
        e == IF k < Cardinality(ps) THEN Nth(ps, k + 1) - 1 ELSE Len(t)
    IN  SubSeq(t, q + 1, e)

\* the outcome logged for the invocation (resp. follow-up) of tool call i
InvocationOf(i) == CHOOSE c \in { calls[j] : j \in 1..Len(calls) } : c.kind = "call_tool" /\ c.idx = i

FollowUpOf(i) == CHOOSE c \in { calls[j] : j \in 1..Len(calls) } : c.kind = "model" /\ c.idx = i

HasInvocation(i) == \E j \in 1..Len(calls) : calls[j].kind = "call_tool" /\ calls[j].idx = i

HasFollowUp(i) == \E j \in 1..Len(calls) : calls[j].kind = "model" /\ calls[j].idx = i

----------------------------------------------------------------------------
(* C1 *)

\* the first choice's message carries no tool calls: key absent, null, or empty list
NoToolCalls(m) ==
    \/ ~m.has_tool_calls
    \/ m.tool_calls = << >>
    \/ m.tool_calls = << << >> >>

\* the content of a message as a text; a null content is the empty text
ContentText(m) == IF m.content = << >> THEN << >> ELSE m.content[1]

\* C1: when the initial response is accepted and its first message carries no tool
\* calls (tool_calls absent, null or empty), process_query returns exactly the
\* message's content, and issues no call_tool and no follow-up post.
C1_NoToolCallsReturnsContent ==
    (pc \in {"returned", "raised"} /\ Accepted /\ NoToolCalls(first_response.choices[1]))
        => /\ result = <<ContentText(first_response.choices[1])>>
           /\ Invocations = << >>
           /\ FollowUps = << >>

----------------------------------------------------------------------------
(* C2 *)

\* C2 as stated, on batches whose tool calls all carry id, name and arguments: when
\* the call has returned, exactly N call_tool invocations and at most N follow-ups
\* were issued, each in batch order.
C2_ExactlyNInvocations ==
    (pc = "returned" /\ \A i \in 1..NumCalls : WellFormed(tool_calls[i]))
        => /\ Len(Invocations) = NumCalls
           /\ Len(FollowUps) <= NumCalls
           /\ Increasing([i \in 1..Len(Invocations) |-> Invocations[i].idx])
           /\ Increasing([i \in 1..Len(FollowUps) |-> FollowUps[i].idx])

\* C2 amended: in every state, the invocations issued so far are, in batch order,
\* exactly the reached tool calls that are well formed and whose arguments decode
\* (so at most N, and none for a tool call whose argument text does not decode); the
\* follow-ups issued so far are those of tool calls 1, 2, ... in order, at most N; and
\* a call that returns from a batch of N invocable tool calls has issued N invocations.
C2_InvocationsInOrder ==
    LET inv == Invocations
        fol == FollowUps
    IN  /\ Len(inv) <= NumCalls /\ Len(fol) <= NumCalls
        /\ Increasing([i \in 1..Len(inv) |-> inv[i].idx])
        /\ { inv[i].idx : i \in 1..Len(inv) }
             = { i \in 1..Reached : i <= NumCalls /\ Invocable(tool_calls[i]) }
        /\ \A i \in 1..Len(inv) : inv[i].name = tool_calls[inv[i].idx].function[1].name
        /\ \A i \in 1..Len(fol) : fol[i].idx = i
        /\ (pc = "returned" /\ \A i \in 1..NumCalls : Invocable(tool_calls[i]))
              => Len(inv) = NumCalls /\ Len(fol) = NumCalls

\* a call has returned from a batch of two whose second tool call has undecodable
\* arguments: one invocation, two follow-ups
C2_Witness ==
    /\ pc = "returned" /\ NumCalls = 2
    /\ Invocable(tool_calls[1])
    /\ WellFormed(tool_calls[2]) /\ ~Invocable(tool_calls[2])
    /\ Len(Invocations) = 1 /\ Len(FollowUps) = 2

----------------------------------------------------------------------------
(* C3 *)

----------------------------------------------------------------------------
(* C4 *)

\* the post failed: it raised, or came back with a non-200 status
FollowUpFailed(c) == c.outcome \in {"raise", "status"}

----------------------------------------------------------------------------
(* C5 *)

\* C5: when the initial post comes back with a non-200 status, process_query returns
\* a text containing 'Error from OpenRouter API', the history still holds only the
\* user message, and the only outbound calls of the query are list_tools and that
\* one post.
C5_InitialStatusErrorTerminal ==
    (pc = "returned" /\ first_response.kind = "response"
                     /\ first_response.status # StatusOK)
        => /\ Contains(result[1], <<"Error from OpenRouter API">>)
           /\ messages = <<UserMessage(query)>>
           /\ Invocations = << >>
           /\ Len(ModelCalls) = 1 /\ FollowUps = << >>

\* a call returned after a status 500 on its initial post
C5_Witness ==
    /\ pc = "returned"
    /\ first_response.kind = "response" /\ first_response.status = 500

----------------------------------------------------------------------------
(* C6 *)

\* the 200 response decodes to a body with an 'error' field
HasErrorField ==
    /\ first_response.kind = "response" /\ first_response.status = StatusOK
    /\ first_response.decodes /\ first_response.has_error

----------------------------------------------------------------------------
(* C7 *)

\* C7: during a process_query call with a live session the history is one user
\* message followed by (assistant, tool) pairs, and each tool message's tool_call_id
\* is the id of a tool call of the assistant message right before it.
C7_HistoryShape ==
    (pc \notin {"idle", "returned", "raised"}
     \/ (pc = "returned" /\ calls # << >>))
        => /\ Len(messages) % 2 = 1
           /\ messages[1] = UserMessage(query)
           /\ \A k \in 1..((Len(messages) - 1) \div 2) :
                LET a == messages[2 * k]
                    t == messages[2 * k + 1]
                IN  /\ a.role = "assistant" /\ a.tool_calls # << >>
                    /\ t.role = "tool" /\ t.tool_call_id # << >>
                    /\ \E n \in 1..Len(a.tool_calls) :
                         a.tool_calls[n].id = t.tool_call_id

\* a history with two (assistant, tool) pairs answering tool calls of different ids
C7_Witness ==
    /\ Len(messages) = 5
    /\ messages[3].tool_call_id # messages[5].tool_call_id

----------------------------------------------------------------------------
(* C8 *)

\* C8: a process_query call made while no session is set has returned the text
\* 'ERROR: Not connected to server' at once, having issued no outbound call.
C8_NotConnectedImmediate ==
    (session = "none" /\ pc # "idle")
        => /\ pc = "returned"
           /\ result = <<NotConnectedText>>
           /\ calls = << >>

\* process_query has been called on a client that was never connected
C8_Witness == session = "none" /\ pc = "returned" /\ query # << >>

----------------------------------------------------------------------------
(* C9 *)

\* C9: whatever the external calls do, no exception leaves process_query, and a call
\* that has ended has returned a text.
C9_NeverPropagates ==
    /\ pc # "raised"
    /\ pc = "returned" => Len(result) = 1

\* a call has returned although both a tool invocation and a follow-up post raised
C9_Witness ==
    /\ pc = "returned" /\ NumCalls = 2
    /\ \E j, k \in 1..Len(calls) :
         /\ calls[j].kind = "call_tool" /\ calls[j].outcome = "raise"
         /\ calls[k].kind = "model" /\ calls[k].idx > 0 /\ calls[k].outcome = "raise"

----------------------------------------------------------------------------
(* C10 *)

\* C10: once the initial response is accepted and carries a list of tool calls,
\* every error of one tool call is contained: the call returns only after the
\* last tool call of the batch, with the accumulated fragments as its result.
C10_ToolErrorsContained ==
    (pc \in {"returned", "raised"} /\ Accepted /\ NumCalls > 0)
        => /\ idx = NumCalls
           /\ result = <<JoinedText(final_text)>>
           /\ Len(final_text) >= NumCalls

----------------------------------------------------------------------------
(* C11 *)

\* the outbound calls of the current call in the order issued: ended, then awaited
Issued == calls \o pending

\* place of a call in the sequence list_tools, initial post, invoke(1), follow-up(1),
\* invoke(2), follow-up(2), ...
Slot(c) == 2 * c.idx + (IF c.kind = "model" THEN 1 ELSE 0)

\* C11: in every state at most one outbound call is awaited; the calls are issued in
\* the order list_tools, initial post, invoke(1), follow-up(1), invoke(2), ...; and
\* when invoke(i+1) is issued, follow-up(i) is the call issued right before it and
\* has ended (with a response or a failure).
C11_OneCallAtATime ==
    /\ Len(pending) <= 1
    /\ \A p \in 1..(Len(Issued) - 1) : Slot(Issued[p]) < Slot(Issued[p + 1])
    /\ \A p \in 1..Len(Issued) :
         (Issued[p].kind = "call_tool" /\ Issued[p].idx > 1)
            => /\ Issued[p - 1].kind = "model"
               /\ Issued[p - 1].idx = Issued[p].idx - 1
               /\ Issued[p - 1].outcome # "pending"
    /\ \A p \in 1..Len(Issued) :
         (Issued[p].kind = "model" /\ Issued[p].idx > 0)
            => Slot(Issued[p - 1]) \in {Slot(Issued[p]) - 1, Slot(Issued[p]) - 2}

\* the invocation of the second tool call is awaited after the first follow-up failed
C11_Witness ==
    /\ Len(pending) = 1 /\ pending[1].kind = "call_tool" /\ pending[1].idx = 2
    /\ calls[Len(calls)].kind = "model" /\ calls[Len(calls)].idx = 1
    /\ calls[Len(calls)].outcome = "raise"

----------------------------------------------------------------------------
(* C12 *)

\* s is a prefix of t
IsPrefix(s, t) == Len(s) <= Len(t) /\ SubSeq(t, 1, Len(s)) = s

\* a process_query call on a connected client is in progress or has just ended
InLiveCall == pc # "idle" /\ session = "live"

\* C12: in every call on a connected client the history starts with the one user
\* message holding that call's query, which is all the initial request carries; each
\* model request carries the whole history of the moment it is issued, in order (the
\* follow-up of tool call i: the user message and the i pairs appended so far); and
\* from one state of a call to the next the history only grows by appending.
C12_HistoryAppendOnly ==
    /\ [](InLiveCall =>
            /\ messages # << >> /\ messages[1] = UserMessage(query)
            /\ messages[1].content = <<query>> /\ messages[1].role = "user"
            /\ \A p \in 1..Len(Issued) :
                 Issued[p].kind = "model"
                    => /\ Len(Issued[p].messages) = 1 + 2 * Issued[p].idx
                       /\ IsPrefix(Issued[p].messages, messages)
            /\ (pending # << >> /\ pending[1].kind = "model")
                  => pending[1].messages = messages)
    /\ [][ /\ (pc # "idle" /\ pc' # "idle") => IsPrefix(messages, messages')
           /\ (pc = "idle" /\ pc' # "idle" /\ session = "live")
                 => messages' = <<UserMessage(query')>> ]_vars

\* the second follow-up of a call is awaited with the whole history of five entries
C12_Witness ==
    /\ InLiveCall /\ Len(messages) = 5 /\ query = <<"q2">>
    /\ pending # << >> /\ pending[1].kind = "model" /\ pending[1].idx = 2
    /\ Len(pending[1].messages) = 5

----------------------------------------------------------------------------
(* C13 *)

Is2xx(status) == status \in 200..299

\* the three failure shapes of the initial response
ShapeStatus == first_response.kind = "response" /\ ~Is2xx(first_response.status)

ShapeErrorField ==
    /\ first_response.kind = "response" /\ Is2xx(first_response.status)
    /\ first_response.decodes /\ first_response.has_error

ShapeNoChoices ==
    /\ first_response.kind = "response" /\ Is2xx(first_response.status)
    /\ first_response.decodes /\ ~first_response.has_error
    /\ (~first_response.has_choices \/ first_response.choices = << >>)

\* a 2xx response whose body is a JSON object with none of the three shapes
ShapeNone ==
    /\ first_response.kind = "response" /\ Is2xx(first_response.status)
    /\ first_response.decodes /\ ~first_response.has_error
    /\ first_response.has_choices /\ first_response.choices # << >>

\* the text reports a failure of the query
IsFailureText(t) ==
    /\ t # << >>
    /\ t[1] \in {"Error from OpenRouter API", "Error from OpenRouter",
                 "Invalid response received from API", "Error processing query"}

\* C13: a returned call whose initial response has one of the three failure shapes
\* has invoked no tool and returns the text of that shape, different for each shape;
\* a returned call whose initial response is 2xx with none of the shapes does not
\* return a failure text.
C13_FailureShapesDistinguished ==
    pc = "returned" =>
        /\ ShapeStatus => Invocations = << >> /\ result[1][1] = "Error from OpenRouter API"
        /\ ShapeErrorField => Invocations = << >> /\ result[1][1] = "Error from OpenRouter"
        /\ ShapeNoChoices => Invocations = << >> /\ result[1] = InvalidResponseText
        /\ ShapeNone => ~IsFailureText(result[1])

----------------------------------------------------------------------------
(* C14 *)

\* str() of a status code, one token
StatusText(status) == <<ToString(status)>>

\* the initial post returned a response with a status other than 200
InitialStatusFailed ==
    /\ pc = "returned"
    /\ first_response.kind = "response" /\ StatusFails(first_response)

\* C14 as stated: after a non-success status on the initial call, the returned error
\* string embeds both the status of the response and its raw body.
C14_EmbedsStatusAndBody ==
    InitialStatusFailed =>
        /\ Contains(result[1], StatusText(first_response.status))
        /\ Contains(result[1], first_response.text)

\* C14: after a non-success status on the initial call, the returned string is
\* 'Error from OpenRouter API: ' followed by the raw body of the response, and the
\* status is not part of it.
C14_EmbedsBodyOnly ==
    InitialStatusFailed =>
        /\ result = << <<"Error from OpenRouter API", ": ">> \o first_response.text >>
        /\ ~Contains(result[1], StatusText(first_response.status))

\* a call returned after a status 500 with a non-empty raw body
C14_Witness ==
    /\ InitialStatusFailed
    /\ first_response.status = 500 /\ first_response.text = <<"upstream down">>

----------------------------------------------------------------------------
(* C15 *)

\* the raw arguments of tool call i
RawArguments(i) == tool_calls[i].function[1].arguments

\* the index in final_text of the '[Tool ...]' fragment of tool call i, 0 when absent
ToolFragmentAt(i) ==
    LET tool == { k \in 1..Len(final_text) :
                    final_text[k] # << >> /\ final_text[k][1] = "[Tool " }
        at == { k \in tool : Cardinality({ j \in tool : j <= k }) = i }
    IN  IF at = {} THEN 0 ELSE CHOOSE k \in at : TRUE

\* tool call i is well formed, its arguments are a text that is not JSON, and the
\* loop has processed it
UndecodableReached(i) ==
    /\ i <= Reached
    /\ WellFormed(tool_calls[i])
    /\ RawArguments(i).is_str /\ RawArguments(i).text = <<"{", "\"x\"">>

\* C15: the arguments of every invocation are the mapping itself when the raw
\* arguments are structured, and the mapping x -> 1 when they are the text {"x":1};
\* a tool call with an undecodable argument text is never invoked, its tool-result
\* message and its fragment carry 'Error executing tool', its follow-up is issued,
\* and once that follow-up has ended the loop is at a later tool call of the batch.
C15_ArgumentDecoding ==
    /\ \A p \in 1..Len(Issued) :
         Issued[p].kind = "call_tool" =>
            LET a == RawArguments(Issued[p].idx) IN
            /\ ~a.is_str => Issued[p].arguments = a.map
            /\ (a.is_str /\ a.text = <<"{", "\"x\"", ":", "1", "}">>)
                  => Issued[p].arguments = {<<"x", 1>>}
    /\ \A i \in 1..NumCalls :
         UndecodableReached(i) =>
            /\ \A p \in 1..Len(Issued) :
                 ~(Issued[p].kind = "call_tool" /\ Issued[p].idx = i)
            /\ Len(messages) >= 2 * i + 1
            /\ messages[2 * i + 1].role = "tool"
            /\ Contains(messages[2 * i + 1].content[1], <<"Error executing tool">>)
            /\ ToolFragmentAt(i) # 0
            /\ Contains(final_text[ToolFragmentAt(i)], <<"Error executing tool">>)
            /\ ~(pc = "followup" /\ idx = i)
                  => \E p \in 1..Len(Issued) :
                        Issued[p].kind = "model" /\ Issued[p].idx = i
            /\ (HasFollowUp(i) /\ i < NumCalls) => idx >= i + 1

\* a returned call whose first tool call had an undecodable argument text and whose
\* second tool call, with the text {"x":1}, was invoked after the first follow-up
C15_Witness ==
    /\ pc = "returned" /\ NumCalls = 2
    /\ UndecodableReached(1) /\ HasFollowUp(1)
    /\ WellFormed(tool_calls[2]) /\ RawArguments(2).is_str
    /\ HasInvocation(2) /\ InvocationOf(2).arguments = {<<"x", 1>>}
    /\ HasFollowUp(2)

----------------------------------------------------------------------------
(* C16 *)

\* the number of tool calls the initial response carries
InitialBatchSize == RequestedCalls(first_response)

\* a process_query call is between its first outbound call and its end
Running == pc \notin {"idle", "returned", "raised"}

\* a follow-up response that itself requests a tool call has been received
FollowUpRequestedTool ==
    \E p \in 1..Len(calls) :
        calls[p].kind = "model" /\ calls[p].idx > 0 /\ calls[p].requested > 0

C16_NoRepeat ==
    /\ Cardinality({ p \in 1..Len(Issued) : Issued[p].kind = "model" })
          <= 1 + InitialBatchSize
    /\ \A p, q \in 1..Len(Issued) :
         (Issued[p].kind = "call_tool" /\ Issued[q].kind = "call_tool" /\ p # q)
            => Issued[p].idx # Issued[q].idx
    /\ \A p \in 1..Len(Issued) :
         Issued[p].kind = "call_tool"
            => /\ Issued[p].idx \in 1..InitialBatchSize
               /\ Issued[p].name = tool_calls[Issued[p].idx].function[1].name
    /\ Cardinality({ p \in 1..Len(Issued) : Issued[p].kind = "call_tool" })
          <= InitialBatchSize
    /\ Len(messages) <= 1 + 2 * InitialBatchSize
    /\ \A k \in 1..Len(messages) :
         messages[k].role = "assistant"
            => /\ k % 2 = 0 /\ k \div 2 <= NumCalls
               /\ messages[k] = AssistantToolCallMessage(tool_calls[k \div 2])

\* the position of a running call: 1 before the initial response, 0 in the loop
Phase ==
    IF pc \in {"list_tools", "await_list_tools", "initial_call", "await_initial"}
    THEN 1 ELSE 0

\* the most steps a running call can still take within its phase
StepsLeft ==
    CASE pc = "list_tools" -> 4
      [] pc = "await_list_tools" -> 3
      [] pc = "initial_call" -> 2
      [] pc = "await_initial" -> 1
      [] pc = "tool_call" -> 4 * (NumCalls - idx) + 4
      [] pc = "await_call_tool" -> 4 * (NumCalls - idx) + 3
      [] pc = "followup" -> 4 * (NumCalls - idx) + 2
      [] pc = "await_followup" -> 4 * (NumCalls - idx) + 1
      [] OTHER -> 0

\* C16: a call whose initial response carries N tool calls issues at most 1 + N
\* model requests; every invocation is of a tool call of the initial batch, each at
\* most once, also after a follow-up response that requests a tool call; the only
\* assistant messages in the history are those of the initial batch; and the call
\* terminates when every outbound call returns or fails: a running call can always
\* take a step, and every step brings it closer to its end (first out of the phase
\* before the initial response, then down a count of at most 4 N steps).
C16_BoundedAndTerminates ==
    /\ []C16_NoRepeat
    /\ [](Running => (ENABLED Step /\ StepsLeft > 0))
    /\ [][Running => \/ Phase' < Phase
                     \/ (Phase' = Phase /\ StepsLeft' < StepsLeft) ]_vars

\* the same termination stated directly, under the fairness of FairSpec
C16_Terminates == Running ~> (pc \in {"returned", "raised"} \/ main_pc # "chat_loop")

\* a call returned from a batch of two although a follow-up response requested a
\* further tool call: three model requests, two invocations
C16_Witness ==
    /\ pc = "returned" /\ InitialBatchSize = 2
    /\ FollowUpRequestedTool
    /\ Len(ModelCalls) = 3 /\ Len(Invocations) = 2

----------------------------------------------------------------------------
(* C17 *)

\* the positions of the tool-result messages in a request's history
ToolResultsIn(msgs) == { k \in 1..Len(msgs) : msgs[k].role = "tool" }

\* C17 as stated: for a batch of N >= 2 tool calls, no model request carries the
\* tool-result messages of all N tool calls.
C17_NeverAllResults ==
    NumCalls >= 2 =>
        \A p \in 1..Len(Issued) :
            Issued[p].kind = "model"
                => Cardinality(ToolResultsIn(Issued[p].messages)) < NumCalls

\* C17: the follow-up of tool call i carries the tool-result messages of the tool
\* calls 1..i, in batch order, and of no other; so for a batch of N >= 2 only the
\* follow-up of the last tool call carries the results of all N, the initial request
\* carries none, and no model request is issued after it.
C17_CumulativeResults ==
    \A p \in 1..Len(Issued) :
        Issued[p].kind = "model" =>
            LET i == Issued[p].idx
                msgs == Issued[p].messages
            IN  /\ i <= NumCalls
                /\ ToolResultsIn(msgs) = { 2 * k + 1 : k \in 1..i }
                /\ \A k \in 1..i :
                     /\ msgs[2 * k + 1].tool_call_id = tool_calls[k].id
                     /\ msgs[2 * k] = AssistantToolCallMessage(tool_calls[k])
                /\ (NumCalls >= 2 /\ i < NumCalls)
                      => Cardinality(ToolResultsIn(msgs)) < NumCalls
                /\ (i > 0 /\ i = NumCalls) => p = Len(Issued)

\* the follow-up of the second tool call of a batch of two was sent with the results
\* of both tool calls
C17_Witness ==
    /\ pc = "returned" /\ NumCalls = 2 /\ HasFollowUp(2)
    /\ Cardinality(ToolResultsIn(FollowUpOf(2).messages)) = 2
    /\ FollowUpOf(2).messages[3].tool_call_id # FollowUpOf(2).messages[5].tool_call_id

----------------------------------------------------------------------------
(* C18 *)

\* the texts a follow-up response can carry as content
FollowUpContents == { <<"hi">>, <<"then">> }

\* the part of the text t before its first tool fragment
BeforeFragments(t) ==
    LET ps == Positions(t, "[Tool ")
    IN  IF ps = {} THEN t ELSE SubSeq(t, 1, Nth(ps, 1) - 1)

\* what follows the fragment of tool call i of n when its follow-up contributed the
\* fragment f (none when f is empty): a line break before f, and one before the
\* fragment of the next tool call
Continuation(f, i, n) ==
    (IF f # << >> THEN <<"\n">> \o f ELSE << >>)
        \o (IF i < n THEN <<"\n">> ELSE << >>)

\* C18: when the initial response is accepted, the call returns the newline-join of:
\* the initial content if any; then for each tool call i of the batch, in order, the
\* fragment '[Tool <name_i> result: <result_i>]' followed by the content of follow-up
\* i if any, or by its error fragment when that follow-up failed.
C18_ReturnsJoinedFragments ==
    (pc \in {"returned", "raised"} /\ Accepted) =>
        LET m == first_response.choices[1]
            n == InitialBatchSize
        IN  /\ result # << >>
            /\ Cardinality(Positions(result[1], "[Tool ")) = n
            /\ BeforeFragments(result[1])
                 = IF Truthy(m.content)
                   THEN m.content[1] \o (IF n > 0 THEN <<"\n">> ELSE << >>)
                   ELSE << >>
            /\ \A i \in 1..n :
                 /\ Len(messages) >= 2 * i + 1
                 /\ Fragment(result[1], i)
                      = ToolFragment(m.tool_calls[1][i].function[1].name,
                                     messages[2 * i + 1].content[1])
                 /\ HasFollowUp(i)
                 /\ LET a == AfterFragment(result[1], i) IN
                    IF FollowUpOf(i).outcome = "ok"
                    THEN \E f \in FollowUpContents \cup {<< >>} :
                            a = Continuation(f, i, n)
                    ELSE /\ Len(a) >= 2
                         /\ a[2] = "Error in follow-up request"
                         /\ a = Continuation(SubSeq(a, 2, Len(a) - (IF i < n THEN 1 ELSE 0)),
                                             i, n)

----------------------------------------------------------------------------
(* C19 *)

\* the positions in Issued of the calls of one kind
IssuedOf(kind) == { p \in 1..Len(Issued) : Issued[p].kind = kind }

\* C19: a call on a connected client fetches the catalog exactly once, as its first
\* outbound call; every model request of the call, initial or follow-up, is issued
\* after that fetch has returned and carries the catalog built from what it returned,
\* whatever tool invocations came in between.
C19_CatalogFetchedOnce ==
    /\ Cardinality(IssuedOf("list_tools")) <= 1
    /\ (pc \notin {"idle", "list_tools"} /\ ~NotConnected(session))
          => IssuedOf("list_tools") = {1}
    /\ \A p \in IssuedOf("model") :
         /\ IssuedOf("list_tools") = {1} /\ p > 1
         /\ Issued[1].outcome = "ok"
         /\ Issued[p].tools = Issued[1].tools
         /\ Issued[p].tools = available_tools

\* the second follow-up of a call is awaited, after two invocations, with the catalog
\* of two tools the fetch returned
C19_Witness ==
    /\ pending # << >> /\ pending[1].kind = "model" /\ pending[1].idx = 2
    /\ Len(pending[1].tools) = 2 /\ pending[1].tools = calls[1].tools
    /\ Cardinality(IssuedOf("call_tool")) = 2
    /\ Cardinality(IssuedOf("list_tools")) = 1

----------------------------------------------------------------------------
(* C20 *)

\* C20: once main has shut down (after quit, after a failed connect_to_server, or
\* after an error that left the chat loop), the release of both resources has been
\* carried out: neither the exit stack nor the HTTP client is left open, also when
\* releasing the exit stack failed.
C20_BothReleased ==
    main_pc = "exited" => exit_stack # "open" /\ http_client # "open"

====
